---------------------------- MODULE Spec2Model ----------------------------
(***************************************************************************)
(* A model of the cargo placement and retrieval core of Interstellar:      *)
(*   - SparseMatrix and AdvancedCargoPlacement  (src/algos/placement_algo) *)
(*   - ItemSearchSystem._calculate_retrieval_steps (src/algos/search_algo) *)
(*   - PriorityAStarRetrieval.find_retrieval_path                          *)
(*       (src/space_cargo_management/algos/retrieve_algo)                  *)
(* Each component has its own specification over the shared variables; a   *)
(* specification holds the variables of the other components constant.     *)
(***************************************************************************)
EXTENDS Integers, Sequences, FiniteSets, TLC

VARIABLES
    \* AdvancedCargoPlacement / SparseMatrix
    container,            \* [width_cm, depth_cm, height_cm] of the planner
    grid,                 \* SparseMatrix.grid: cell -> set of region tuples
    occupied_cells,       \* SparseMatrix.occupied_cells
    current_placements,   \* the dict item id -> Position3D, in insertion order
    items_dict,           \* item id -> item data
    sorted_items,         \* find_optimal_placement: the sorted input
    placements,           \* find_optimal_placement: the output list
    rearrangements,       \* find_optimal_placement: the output move list
    idx,                  \* loop index into sorted_items
    pc,                   \* position of find_optimal_placement
    container_states,     \* AdvancedCargoPlacement._container_states: key -> state
    planners,             \* the container keys of the planners constructed so far
    \* direct use of the SparseMatrix
    mx_hist,              \* the last two SparseMatrix calls
    mx_ops,               \* number of SparseMatrix calls so far
    \* get_90degree_rotations
    rot_item,             \* the item handed to get_90degree_rotations
    rotations,            \* its result
    \* ItemSearchSystem
    items_data,           \* item id -> [name, priority]
    cargo_data,           \* the dict item id -> zone, container, position, in order
    target_item_id,       \* the argument of _calculate_retrieval_steps
    retrieval_steps,      \* its result
    search_pc,            \* "ready", "returned" or "raised"
    search_containers,    \* ItemSearchSystem.containers: [container_id, zone], in order
    search_result,        \* the dict search_by_id returned
    \* PriorityAStarRetrieval
    container_dims,       \* [width, depth, height] of the retrieval container
    occupied_spaces,      \* PriorityAStarRetrieval.occupied_spaces
    start_pos_int,        \* find_retrieval_path: the arguments
    target_pos_int,
    priority_bonus,       \* calculate_priority_score(itemId), in hundredths
    open_pq,              \* the heap list; an entry is the position of its node
    open_set,
    closed_set,
    nodes,                \* position -> [g_cost, h_cost, f_cost, parent, priority_bonus]
    path,                 \* the Optional[RetrievalPath] returned: << >> is None
    astar_pc,             \* position of find_retrieval_path
    popped_closed         \* history: heappop returned a position already closed

placeVars == <<container, current_placements, items_dict, sorted_items,
               placements, rearrangements, idx, pc>>
matrixVars == <<grid, occupied_cells>>
histVars == <<mx_hist, mx_ops>>
rotVars == <<rot_item, rotations>>
searchVars == <<items_data, cargo_data, target_item_id, retrieval_steps, search_pc,
                search_containers, search_result>>
astarVars == <<container_dims, occupied_spaces, start_pos_int, target_pos_int,
               priority_bonus,
               open_pq, open_set, closed_set, nodes, path, astar_pc,
               popped_closed>>
sharedVars == <<container_states, planners>>
vars == <<placeVars, matrixVars, histVars, rotVars, searchVars, astarVars, sharedVars>>

None == "None"

-----------------------------------------------------------------------------
(* Bounds of the model *)

MaxItems == 3
MaxPriority == 2
MaxOps == 3
MaxCargo == 3

\* SparseMatrix.__init__: grid_size=10, and the scan step of _find_best_position
grid_size == 10

\* Container dimensions the planner is constructed with
Containers ==
    { [width_cm |-> 20, depth_cm |-> 10, height_cm |-> 10],
      [width_cm |-> 10, depth_cm |-> 20, height_cm |-> 10] }

\* Item shapes <<width_cm, depth_cm, height_cm>> of the requests
ItemShapes == { <<5, 5, 5>>, <<10, 10, 10>>, <<5, 20, 5>> }

Priorities == 1..MaxPriority

\* An input item of find_optimal_placement with id i
ItemsWithId(i) ==
    { [item_id |-> i, width_cm |-> s[1], depth_cm |-> s[2], height_cm |-> s[3],
       priority |-> p] : s \in ItemShapes, p \in Priorities }

\* The item lists of a request: ids are unique (the position in the list)
RECURSIVE ItemListsOfLen(_)
ItemListsOfLen(n) ==
    IF n = 0 THEN { << >> }
    ELSE { Append(l, it) : l \in ItemListsOfLen(n - 1), it \in ItemsWithId(n) }

ItemLists == UNION { ItemListsOfLen(n) : n \in 0..MaxItems }

-----------------------------------------------------------------------------
(* SparseMatrix *)

\* _get_grid_cell: floor division of each coordinate by grid_size
get_grid_cell(x, y, z) == <<x \div grid_size, y \div grid_size, z \div grid_size>>

\* the cells the three nested range loops of is_occupied/occupy/clear visit
SpannedCells(r) ==
    LET start_cell == get_grid_cell(r[1], r[2], r[3])
        end_cell == get_grid_cell(r[4], r[5], r[6])
    IN  { <<x, y, z>> : x \in start_cell[1]..end_cell[1],
                        y \in start_cell[2]..end_cell[2],
                        z \in start_cell[3]..end_cell[3] }

\* self.grid[cell] of the defaultdict(set): the empty set for a missing key
GridAt(g, c) == IF c \in DOMAIN g THEN g[c] ELSE {}

\* an is_occupied that looks at the start cell only
is_occupied_start_cell_only(g, r) ==
    LET c0 == get_grid_cell(r[1], r[2], r[3])
    IN  c0 \in DOMAIN g /\ g[c0] # {}

is_occupied(g, r) ==
    \E c \in SpannedCells(r) : c \in DOMAIN g /\ g[c] # {}

\* an occupy that registers the region in its start cell only
occupy_start_cell_only(g, oc, r) ==
    LET c0 == get_grid_cell(r[1], r[2], r[3])
    IN  [ grid |-> [ c \in DOMAIN g \cup {c0} |->
                       IF c = c0 THEN GridAt(g, c) \cup {r} ELSE g[c] ],
          occupied_cells |-> oc \cup {c0} ]

occupy(g, oc, r) ==
    [ grid |-> [ c \in DOMAIN g \cup SpannedCells(r) |->
                   IF c \in SpannedCells(r) THEN GridAt(g, c) \cup {r} ELSE g[c] ],
      occupied_cells |-> oc \cup SpannedCells(r) ]

\* a clear that discards the region from its first cell only
clear_first_cell_only(g, oc, r) ==
    LET c0 == get_grid_cell(r[1], r[2], r[3])
    IN  [ grid |-> [ c \in DOMAIN g |-> IF c = c0 THEN g[c] \ {r} ELSE g[c] ],
          occupied_cells |->
              oc \ { c \in {c0} \cap DOMAIN g : g[c] \ {r} = {} } ]

clear(g, oc, r) ==
    [ grid |-> [ c \in DOMAIN g |->
                   IF c \in SpannedCells(r) THEN g[c] \ {r} ELSE g[c] ],
      occupied_cells |->
          oc \ { c \in SpannedCells(r) \cap DOMAIN g : g[c] \ {r} = {} } ]

get_occupied_regions(g, oc) == UNION { GridAt(g, c) : c \in oc }


-----------------------------------------------------------------------------
(* AdvancedCargoPlacement: geometry helpers *)

\* the scan step of _find_best_position and _find_temporary_position
scan_step == 10

\* range(0, n, scan_step)
ScanRange(n) == { k * scan_step : k \in 0..((n - 1) \div scan_step) }

\* a scan over every grid position of the container, whatever the item's size
ScanPositions_whole_container(c, item) ==
    { <<x, y, z>> : x \in ScanRange(c.width_cm + 1),
                    y \in ScanRange(c.depth_cm + 1),
                    z \in ScanRange(c.height_cm + 1) }

\* the candidate positions of the three nested range loops
ScanPositions(c, item) ==
    { <<x, y, z>> : x \in ScanRange(c.width_cm - item.width_cm + 1),
                    y \in ScanRange(c.depth_cm - item.depth_cm + 1),
                    z \in ScanRange(c.height_cm - item.height_cm + 1) }

\* loops nested the other way round: z outer, y middle, x inner
ScannedBefore_z_outer(p, q) ==
    \/ p[3] < q[3]
    \/ p[3] = q[3] /\ p[2] < q[2]
    \/ p[3] = q[3] /\ p[2] = q[2] /\ p[1] < q[1]

\* the order in which the loops visit positions: x outer, y middle, z inner
ScannedBefore(p, q) ==
    \/ p[1] < q[1]
    \/ p[1] = q[1] /\ p[2] < q[2]
    \/ p[1] = q[1] /\ p[2] = q[2] /\ p[3] < q[3]

FirstScanned(S) == CHOOSE p \in S : \A q \in S : p = q \/ ScannedBefore(p, q)

\* the region tuple an item of these dimensions occupies at pos
RegionAt(pos, item) ==
    <<pos[1], pos[2], pos[3],
      pos[1] + item.width_cm, pos[2] + item.depth_cm, pos[3] + item.height_cm>>

can_place_item(c, g, pos, item) ==
    IF \/ pos[1] + item.width_cm > c.width_cm
       \/ pos[2] + item.depth_cm > c.depth_cm
       \/ pos[3] + item.height_cm > c.height_cm
    THEN FALSE
    ELSE ~ is_occupied(g, RegionAt(pos, item))

\* a _place_item that leaves the index as it is
place_item_skipped(g, oc, pos, item) == [grid |-> g, occupied_cells |-> oc]

\* _place_item
place_item(g, oc, pos, item) == occupy(g, oc, RegionAt(pos, item))

\* a ROTATE_Z that takes the depth for both the width and the depth
get_90degree_rotations_bad_z(c, item) ==
    <<[item |-> item, rotation |-> "NO_ROTATION"]>>
    \o (IF item.height_cm <= c.depth_cm /\ item.depth_cm <= c.height_cm
        THEN << [item |-> [item EXCEPT !.depth_cm = item.height_cm,
                                       !.height_cm = item.depth_cm],
                 rotation |-> "ROTATE_X"] >>
        ELSE << >>)
    \o (IF item.width_cm <= c.height_cm /\ item.height_cm <= c.width_cm
        THEN << [item |-> [item EXCEPT !.width_cm = item.height_cm,
                                       !.height_cm = item.width_cm],
                 rotation |-> "ROTATE_Y"] >>
        ELSE << >>)
    \o (IF item.width_cm <= c.depth_cm /\ item.depth_cm <= c.width_cm
        THEN << [item |-> [item EXCEPT !.width_cm = item.depth_cm,
                                       !.depth_cm = item.depth_cm],
                 rotation |-> "ROTATE_Z"] >>
        ELSE << >>)

\* rotations that are returned only if the rotated item fits the container on
\* all three axes
get_90degree_rotations_fit_all(c, item) ==
    <<[item |-> item, rotation |-> "NO_ROTATION"]>>
    \o (IF /\ item.height_cm <= c.depth_cm /\ item.depth_cm <= c.height_cm
           /\ item.width_cm <= c.width_cm
        THEN << [item |-> [item EXCEPT !.depth_cm = item.height_cm,
                                       !.height_cm = item.depth_cm],
                 rotation |-> "ROTATE_X"] >>
        ELSE << >>)
    \o (IF /\ item.width_cm <= c.height_cm /\ item.height_cm <= c.width_cm
           /\ item.depth_cm <= c.depth_cm
        THEN << [item |-> [item EXCEPT !.width_cm = item.height_cm,
                                       !.height_cm = item.width_cm],
                 rotation |-> "ROTATE_Y"] >>
        ELSE << >>)
    \o (IF /\ item.width_cm <= c.depth_cm /\ item.depth_cm <= c.width_cm
           /\ item.height_cm <= c.height_cm
        THEN << [item |-> [item EXCEPT !.width_cm = item.depth_cm,
                                       !.depth_cm = item.width_cm],
                 rotation |-> "ROTATE_Z"] >>
        ELSE << >>)

get_90degree_rotations(c, item) ==
    <<[item |-> item, rotation |-> "NO_ROTATION"]>>
    \o (IF item.height_cm <= c.depth_cm /\ item.depth_cm <= c.height_cm
        THEN << [item |-> [item EXCEPT !.depth_cm = item.height_cm,
                                       !.height_cm = item.depth_cm],
                 rotation |-> "ROTATE_X"] >>
        ELSE << >>)
    \o (IF item.width_cm <= c.height_cm /\ item.height_cm <= c.width_cm
        THEN << [item |-> [item EXCEPT !.width_cm = item.height_cm,
                                       !.height_cm = item.width_cm],
                 rotation |-> "ROTATE_Y"] >>
        ELSE << >>)
    \o (IF item.width_cm <= c.depth_cm /\ item.depth_cm <= c.width_cm
        THEN << [item |-> [item EXCEPT !.width_cm = item.depth_cm,
                                       !.depth_cm = item.width_cm],
                 rotation |-> "ROTATE_Z"] >>
        ELSE << >>)

\* floor of the square root
ISqrt(n) == CHOOSE r \in 0..n : r * r <= n /\ (r + 1) * (r + 1) > n

\* _calculate_rearrangement_cost, in hundredths, the distance rounded down
calculate_rearrangement_cost(old_pos, new_pos, item) ==
    ISqrt( (new_pos[1] - old_pos[1]) * (new_pos[1] - old_pos[1])
         + (new_pos[2] - old_pos[2]) * (new_pos[2] - old_pos[2])
         + (new_pos[3] - old_pos[3]) * (new_pos[3] - old_pos[3]) )
    * (100 + item.priority)

find_temporary_position(c, g, item) ==
    LET free == { p \in ScanPositions(c, item) : can_place_item(c, g, p, item) }
    IN  IF free = {} THEN None ELSE FirstScanned(free)

RECURSIVE SumCosts(_, _, _, _, _)
SumCosts(c, g, regions, pos, item) ==
    IF regions = {} THEN 0
    ELSE LET r == CHOOSE x \in regions : TRUE
             temp_pos == find_temporary_position(c, g, item)
             hit == /\ pos[1] < r[4] /\ pos[1] + item.width_cm > r[1]
                    /\ pos[2] < r[5] /\ pos[2] + item.depth_cm > r[2]
                    /\ pos[3] < r[6] /\ pos[3] + item.height_cm > r[3]
             cost == IF hit /\ temp_pos # None
                     THEN calculate_rearrangement_cost(<<r[1], r[2], r[3]>>, temp_pos, item)
                     ELSE 0
         IN  cost + SumCosts(c, g, regions \ {r}, pos, item)

\* _calculate_rearrangement_cost_for_position
calculate_rearrangement_cost_for_position(c, g, oc, pos, item) ==
    SumCosts(c, g, get_occupied_regions(g, oc), pos, item)

\* the result of the two scans of _find_best_position: the first free
\* position, else the first position of strictly least rearrangement cost
BestOf(free, occ, cost) ==
    IF free # {} THEN FirstScanned(free)
    ELSE IF occ = {} THEN None
    ELSE CHOOSE p \in occ : \A q \in occ :
             \/ p = q
             \/ cost[p] < cost[q]
             \/ cost[p] = cost[q] /\ ScannedBefore(p, q)

find_best_position(c, g, oc, item) ==
    BestOf({ p \in ScanPositions(c, item) : can_place_item(c, g, p, item) },
           { p \in ScanPositions(c, item) : is_occupied(g, RegionAt(p, item)) },
           [ p \in ScanPositions(c, item) |->
               calculate_rearrangement_cost_for_position(c, g, oc, p, item) ])

-----------------------------------------------------------------------------
(* AdvancedCargoPlacement: the placement map, rearrangement *)

\* current_placements.get(item_id)
PlacementOf(cp, id) ==
    IF \E i \in 1..Len(cp) : cp[i].item_id = id
    THEN cp[CHOOSE i \in 1..Len(cp) : cp[i].item_id = id].pos
    ELSE None

\* current_placements[item_id] = pos: a present key keeps its place in the dict
SetPlacement(cp, id, pos) ==
    IF \E i \in 1..Len(cp) : cp[i].item_id = id
    THEN [ i \in 1..Len(cp) |-> IF cp[i].item_id = id
                                 THEN [item_id |-> id, pos |-> pos] ELSE cp[i] ]
    ELSE Append(cp, [item_id |-> id, pos |-> pos])

\* list.sort(key) and sorted(key): stable, so an element goes to the place
\* behind every element before it by the key and every earlier equal one
StableSort(s, Before(_, _)) ==
    LET rank(i) == 1 + Cardinality({ j \in 1..Len(s) :
                         \/ Before(s[j], s[i])
                         \/ ~ Before(s[i], s[j]) /\ j < i })
    IN  [ k \in 1..Len(s) |-> s[CHOOSE i \in 1..Len(s) : rank(i) = k] ]

\* _find_rearrangement_path; target_pos.x raises for target_pos None
find_rearrangement_path(c, g, cp, item, target_pos) ==
    LET current_pos == PlacementOf(cp, item.item_id)
        temp_pos == find_temporary_position(c, g, item)
    IN  IF current_pos = None THEN [moves |-> << >>, raised |-> FALSE]
        ELSE IF target_pos = None THEN [moves |-> << >>, raised |-> TRUE]
        ELSE [ moves |->
                 (IF temp_pos # None
                  THEN << [item_id |-> item.item_id, from |-> current_pos,
                           to |-> temp_pos, type |-> "temporary"] >>
                  ELSE << >>)
                 \o << [item_id |-> item.item_id,
                        from |-> IF temp_pos # None THEN temp_pos ELSE current_pos,
                        to |-> target_pos, type |-> "final"] >>,
               raised |-> FALSE ]

\* a rearrangement that, when the new item has a target position, moves the
\* existing item of least priority there
rearrange_for_new_item_relocating(c, g, oc, cp, idict, new_item) ==
    LET present == SelectSeq(cp, LAMBDA e : e.item_id \in DOMAIN idict)
        existing_items ==
            StableSort([ i \in 1..Len(present) |->
                           [idict[present[i].item_id] EXCEPT !.item_id = present[i].item_id] ],
                       LAMBDA a, b : a.priority < b.priority)
        target_pos == find_best_position(c, g, oc, new_item)
    IN  IF target_pos = None \/ existing_items = << >>
        THEN [rearrangements |-> << >>, success |-> FALSE,
              current_placements |-> cp, raised |-> FALSE]
        ELSE [rearrangements |->
                  find_rearrangement_path(c, g, cp, existing_items[1], target_pos).moves,
              success |-> TRUE,
              current_placements |->
                  SetPlacement(cp, existing_items[1].item_id, target_pos),
              raised |-> FALSE]

\* rearrange_for_new_item: (rearrangements, success), the placement map it
\* leaves, and whether it raised
rearrange_for_new_item(c, g, oc, cp, idict, new_item) ==
    LET present == SelectSeq(cp, LAMBDA e : e.item_id \in DOMAIN idict)
        existing_items ==
            StableSort([ i \in 1..Len(present) |->
                           [idict[present[i].item_id] EXCEPT !.item_id = present[i].item_id] ],
                       LAMBDA a, b : a.priority < b.priority)
        target_pos == find_best_position(c, g, oc, new_item)
        none == [rearrangements |-> << >>, success |-> FALSE,
                 current_placements |-> cp, raised |-> FALSE]
    IN  IF target_pos # None \/ existing_items = << >> THEN none
        ELSE \* the loop over existing_items: no item yields moves for a target
             \* of None; the first one that has a position raises
             IF \E i \in 1..Len(existing_items) :
                    find_rearrangement_path(c, g, cp, existing_items[i], target_pos).raised
             THEN [none EXCEPT !.raised = TRUE]
             ELSE none

-----------------------------------------------------------------------------
(* AdvancedCargoPlacement.find_optimal_placement *)

\* a sort key of the priority alone
SortedBefore_priority_only(a, b) == a.priority > b.priority

\* the sort key (-priority, -volume)
SortedBefore(a, b) ==
    \/ a.priority > b.priority
    \/ /\ a.priority = b.priority
       /\ a.width_cm * a.depth_cm * a.height_cm > b.width_cm * b.depth_cm * b.height_cm

\* the dict appended to placements
PlacementRecord(item_id, best_pos, rotated_item, rotation) ==
    [ item_id |-> item_id,
      startCoordinates |-> best_pos,
      endCoordinates |-> <<best_pos[1] + rotated_item.width_cm,
                           best_pos[2] + rotated_item.depth_cm,
                           best_pos[3] + rotated_item.height_cm>>,
      rotation |-> rotation ]

\* the space matrix update after a successful rearrangement: each final move
\* is cleared and occupied with the dimensions of the new item
RECURSIVE ApplyMoves(_, _, _, _)
ApplyMoves(g, oc, moves, rotated_item) ==
    IF moves = << >> THEN [grid |-> g, occupied_cells |-> oc]
    ELSE LET move == Head(moves)
             cleared == clear(g, oc, RegionAt(move.from, rotated_item))
             marked == occupy(cleared.grid, cleared.occupied_cells,
                              RegionAt(move.to, rotated_item))
         IN  IF move.type = "final"
             THEN ApplyMoves(marked.grid, marked.occupied_cells, Tail(moves), rotated_item)
             ELSE ApplyMoves(g, oc, Tail(moves), rotated_item)

InitPlanner ==
    /\ container \in Containers
    /\ grid = << >>
    /\ occupied_cells = {}
    /\ current_placements = << >>
    /\ items_dict = << >>
    /\ sorted_items = << >>
    /\ placements = << >>
    /\ rearrangements = << >>
    /\ idx = 0
    /\ pc = "idle"

\* find_optimal_placement(items): the items_dict update and the sort
Begin(items) ==
    /\ pc = "idle"
    /\ placements' = << >>
    /\ rearrangements' = << >>
    /\ IF items = << >>
       THEN /\ pc' = "done"
            /\ UNCHANGED <<items_dict, sorted_items, idx>>
       ELSE /\ items_dict' =
                 [ id \in DOMAIN items_dict \cup { items[i].item_id : i \in 1..Len(items) } |->
                     IF \E i \in 1..Len(items) : items[i].item_id = id
                     THEN items[CHOOSE i \in 1..Len(items) :
                                  /\ items[i].item_id = id
                                  /\ \A j \in (i + 1)..Len(items) : items[j].item_id # id]
                     ELSE items_dict[id] ]
            /\ sorted_items' = StableSort(items, SortedBefore)
            /\ idx' = 1
            /\ pc' = "pass1"
    /\ UNCHANGED <<astarVars, sharedVars, container, current_placements, matrixVars, histVars, rotVars, searchVars>>

\* the first rotation variant, in order, that satisfies ok; 0 if none does
FirstRotation(ok) == IF ok = {} THEN 0 ELSE CHOOSE r \in ok : \A q \in ok : r <= q

\* the rotation variant the first loop places, with its position
FirstPassChoice(c, g, rots, best_pos) ==
    FirstRotation({ r \in 1..Len(rots) :
                      /\ best_pos[r] # None
                      /\ can_place_item(c, g, best_pos[r], rots[r].item) })

BestPositions(c, g, oc, rots) ==
    [ r \in 1..Len(rots) |-> find_best_position(c, g, oc, rots[r].item) ]

\* one iteration of the first loop: place without rearrangement
FirstPass ==
    /\ pc = "pass1"
    /\ idx <= Len(sorted_items)
    /\ \E rots \in { get_90degree_rotations(container, sorted_items[idx]) } :
       \E best_pos \in { BestPositions(container, grid, occupied_cells, rots) } :
       \E r \in { FirstPassChoice(container, grid, rots, best_pos) } :
          IF r = 0
          THEN UNCHANGED <<matrixVars, current_placements, placements>>
          ELSE \E m \in { place_item(grid, occupied_cells, best_pos[r], rots[r].item) } :
                  /\ grid' = m.grid
                  /\ occupied_cells' = m.occupied_cells
                  /\ current_placements' =
                         SetPlacement(current_placements, sorted_items[idx].item_id,
                                      best_pos[r])
                  /\ placements' = Append(placements,
                         PlacementRecord(sorted_items[idx].item_id, best_pos[r],
                                         rots[r].item, rots[r].rotation))
    /\ idx' = idx + 1
    /\ UNCHANGED <<astarVars, sharedVars, container, items_dict, sorted_items, rearrangements, pc,
                   histVars, rotVars, searchVars>>

FirstPassEnd ==
    /\ pc = "pass1"
    /\ idx > Len(sorted_items)
    /\ pc' = "pass2"
    /\ idx' = 1
    /\ UNCHANGED <<astarVars, sharedVars, container, current_placements, items_dict, sorted_items,
                   placements, rearrangements, matrixVars, histVars, rotVars, searchVars>>

\* the body of the second loop for the rotation variant it settles on:
\* rearrange when the position is not free, then place the item all the same
SecondPassPlace(c, g, oc, cp, rotated_item, rotation, best_pos, needed, re) ==
    IF needed /\ re.raised
    THEN [raised |-> TRUE]
    ELSE LET moved == IF needed /\ re.success
                      THEN ApplyMoves(g, oc, re.rearrangements, rotated_item)
                      ELSE [grid |-> g, occupied_cells |-> oc]
         IN  [ raised |-> FALSE,
               matrix |-> place_item(moved.grid, moved.occupied_cells, best_pos,
                                     rotated_item),
               moves |-> IF needed /\ re.success THEN re.rearrangements ELSE << >>,
               current_placements |->
                   SetPlacement(IF needed THEN re.current_placements ELSE cp,
                                rotated_item.item_id, best_pos),
               placement |-> PlacementRecord(rotated_item.item_id, best_pos,
                                             rotated_item, rotation) ]

\* one iteration of the second loop: the items the first loop did not place
SecondPass ==
    /\ pc = "pass2"
    /\ idx <= Len(sorted_items)
    /\ \E rots \in { get_90degree_rotations(container, sorted_items[idx]) } :
       \E best_pos \in { BestPositions(container, grid, occupied_cells, rots) } :
       \E r \in { FirstRotation({ q \in 1..Len(rots) : best_pos[q] # None }) } :
          IF \/ \E i \in 1..Len(placements) :
                    placements[i].item_id = sorted_items[idx].item_id
             \/ r = 0
          THEN /\ idx' = idx + 1
               /\ UNCHANGED <<matrixVars, current_placements, placements,
                              rearrangements, pc>>
          ELSE \E out \in { SecondPassPlace(container, grid, occupied_cells,
                              current_placements, rots[r].item, rots[r].rotation,
                              best_pos[r],
                              ~ can_place_item(container, grid, best_pos[r], rots[r].item),
                              rearrange_for_new_item(container, grid, occupied_cells,
                                  current_placements, items_dict, rots[r].item)) } :
                  IF out.raised
                  THEN /\ pc' = "raised"
                       /\ UNCHANGED <<matrixVars, current_placements, placements,
                                      rearrangements, idx>>
                  ELSE /\ grid' = out.matrix.grid
                       /\ occupied_cells' = out.matrix.occupied_cells
                       /\ rearrangements' = rearrangements \o out.moves
                       /\ current_placements' = out.current_placements
                       /\ placements' = Append(placements, out.placement)
                       /\ idx' = idx + 1
                       /\ pc' = pc
    /\ UNCHANGED <<astarVars, sharedVars, container, items_dict, sorted_items, histVars, rotVars, searchVars>>

\* return placements, rearrangements
Return ==
    /\ pc = "pass2"
    /\ idx > Len(sorted_items)
    /\ pc' = "done"
    /\ UNCHANGED <<astarVars, sharedVars, container, current_placements, items_dict, sorted_items,
                   placements, rearrangements, idx, matrixVars, histVars, rotVars, searchVars>>

\* a placement request arrives with its items
Call == pc = "idle" /\ \E items \in ItemLists : Begin(items)

\* the components a specification does not use stay as they are here
IdleMatrixCalls == mx_hist = << >> /\ mx_ops = 0

IdleRotations == rot_item = None /\ rotations = << >>

IdleAStar ==
    /\ container_dims = None
    /\ occupied_spaces = {}
    /\ start_pos_int = None
    /\ target_pos_int = None
    /\ priority_bonus = 0
    /\ open_pq = << >>
    /\ open_set = {}
    /\ closed_set = {}
    /\ nodes = << >>
    /\ path = << >>
    /\ astar_pc = "idle"
    /\ popped_closed = FALSE

IdlePlanner ==
    /\ container_states = << >>
    /\ planners = << >>
    /\ current_placements = << >>
    /\ items_dict = << >>
    /\ sorted_items = << >>
    /\ placements = << >>
    /\ rearrangements = << >>
    /\ idx = 0
    /\ pc = "idle"

IdleSearch ==
    /\ items_data = << >>
    /\ cargo_data = << >>
    /\ target_item_id = None
    /\ retrieval_steps = << >>
    /\ search_pc = "idle"
    /\ search_containers = << >>
    /\ search_result = << >>

InitPlace ==
    /\ InitPlanner
    /\ container_states = << >>
    /\ planners = <<container>>
    /\ IdleMatrixCalls
    /\ IdleRotations
    /\ IdleSearch
    /\ IdleAStar

NextPlace ==
    \/ Call
    \/ FirstPass
    \/ FirstPassEnd
    \/ SecondPass
    \/ Return

SpecPlace == InitPlace /\ [][NextPlace]_vars

\* the boxes of two placements share interior volume
Overlap(a, b) ==
    \A k \in 1..3 : /\ a.startCoordinates[k] < b.endCoordinates[k]
                     /\ b.startCoordinates[k] < a.endCoordinates[k]

\* C1: when find_optimal_placement has returned, no two returned placements
\* overlap: every pair is separated on at least one axis
C1_NoOverlap ==
    pc = "done" =>
        \A i, j \in 1..Len(placements) : i # j => ~ Overlap(placements[i], placements[j])

ContainerDim(k) ==
    IF k = 1 THEN container.width_cm
    ELSE IF k = 2 THEN container.depth_cm ELSE container.height_cm

\* C2: every placement, of the first and of the second pass, lies inside the
\* container: 0 <= start <= end <= container dimension on every axis
C2_InBounds ==
    \A i \in 1..Len(placements) : \A k \in 1..3 :
        /\ 0 <= placements[i].startCoordinates[k]
        /\ placements[i].startCoordinates[k] <= placements[i].endCoordinates[k]
        /\ placements[i].endCoordinates[k] <= ContainerDim(k)

\* a run has returned placements of both passes: the second pass placed an
\* item onto a position that was not free
C2_Witness ==
    /\ pc = "done"
    /\ \E i, j \in 1..Len(placements) :
          /\ i < j
          /\ Overlap(placements[i], placements[j])
          /\ placements[i].rotation # "NO_ROTATION"

-----------------------------------------------------------------------------
(* ItemSearchSystem._calculate_retrieval_steps *)

\* Stored positions of the cargo: container, width interval, start depth and
\* start height (boxes are 10 deep and 10 high)
CargoSlots ==
    { [container_id |-> "contA", w |-> <<0, 10>>, d |-> 0, h |-> 0],
      [container_id |-> "contA", w |-> <<5, 15>>, d |-> 10, h |-> 10],
      [container_id |-> "contA", w |-> <<10, 20>>, d |-> 20, h |-> 0],
      [container_id |-> "contA", w |-> <<8, 18>>, d |-> 0, h |-> 10],
      [container_id |-> "contB", w |-> <<0, 10>>, d |-> 0, h |-> 0] }

\* a cargo_data entry as __init__ builds it from a cargo row
CargoEntry(id, slot) ==
    [ item_id |-> id,
      zone |-> slot.container_id,
      container_id |-> slot.container_id,
      position |->
        [ startCoordinates |->
            [width_cm |-> slot.w[1], depth_cm |-> slot.d, height_cm |-> slot.h],
          endCoordinates |->
            [width_cm |-> slot.w[2], depth_cm |-> slot.d + 10,
             height_cm |-> slot.h + 10] ] ]

\* an items_data entry
ItemEntry(id, priority) ==
    [ name |-> IF id % 2 = 0 THEN "even" ELSE "odd", priority |-> priority ]

\* the cargo_data entry of an item id
CargoOf(cd, id) == cd[CHOOSE i \in 1..Len(cd) : cd[i].item_id = id]

\* the blocking test without the comparison of priorities
is_blocking_any_priority(item_data, item_priority, target_item, target_priority) ==
    /\ item_data.position.startCoordinates.depth_cm
         < target_item.position.startCoordinates.depth_cm
    /\ ~ (\/ item_data.position.endCoordinates.width_cm
               <= target_item.position.startCoordinates.width_cm
          \/ item_data.position.startCoordinates.width_cm
               >= target_item.position.endCoordinates.width_cm)

\* is_blocking of the loop over items_in_container
is_blocking(item_data, item_priority, target_item, target_priority) ==
    /\ item_data.position.startCoordinates.depth_cm
         < target_item.position.startCoordinates.depth_cm
    /\ ~ (\/ item_data.position.endCoordinates.width_cm
               <= target_item.position.startCoordinates.width_cm
          \/ item_data.position.startCoordinates.width_cm
               >= target_item.position.endCoordinates.width_cm)
    /\ item_priority > target_priority

\* blocking_items before the sort, in the order of the cargo dict
BlockingItems(idata, cd, target) ==
    SelectSeq(cd, LAMBDA e :
        /\ e.container_id = CargoOf(cd, target).container_id
        /\ e.item_id # target
        /\ is_blocking(e, idata[e.item_id].priority,
                       CargoOf(cd, target), idata[target].priority))

\* blocking_items left in the order of the cargo dict
SortedBlockingItems_unsorted(idata, cd, target) == BlockingItems(idata, cd, target)

\* blocking_items.sort(key = start depth)
SortedBlockingItems(idata, cd, target) ==
    StableSort(BlockingItems(idata, cd, target),
               LAMBDA a, b : a.position.startCoordinates.depth_cm
                               < b.position.startCoordinates.depth_cm)

Step(n, action, id, idata) ==
    [step |-> n, action |-> action, item_id |-> id, item_name |-> idata[id].name]

RemoveSteps(blocking, idata) ==
    [ i \in 1..Len(blocking) |-> Step(i, "remove", blocking[i].item_id, idata) ]

\* place steps in the order of the remove steps
PlaceSteps_front_to_back(blocking, idata) ==
    [ i \in 1..Len(blocking) |->
        Step(Len(blocking) + 1 + i, "place", blocking[i].item_id, idata) ]

\* for item in reversed(blocking_items)
PlaceSteps(blocking, idata) ==
    [ i \in 1..Len(blocking) |->
        Step(Len(blocking) + 1 + i, "place",
             blocking[Len(blocking) + 1 - i].item_id, idata) ]

\* a retrieve step that names the last item removed
RetrieveStep_last_removed(blocking, target, idata) ==
    << Step(Len(blocking) + 1, "retrieve", blocking[Len(blocking)].item_id, idata) >>

RetrieveStep(blocking, target, idata) ==
    << Step(Len(blocking) + 1, "retrieve", target, idata) >>

\* the step list for a list of blocking items, without the early return
StepsFor_no_early_return(blocking, target, idata) ==
    RemoveSteps(blocking, idata) \o << Step(Len(blocking) + 1, "retrieve", target, idata) >>
        \o PlaceSteps(blocking, idata)

\* the step list for the sorted blocking items
StepsFor(blocking, target, idata) ==
    IF blocking = << >> THEN << >>
    ELSE RemoveSteps(blocking, idata) \o RetrieveStep(blocking, target, idata)
             \o PlaceSteps(blocking, idata)

calculate_retrieval_steps(idata, cd, target) ==
    StepsFor(SortedBlockingItems(idata, cd, target), target, idata)

RECURSIVE CargoListsOfLen(_)
CargoListsOfLen(n) ==
    IF n = 0 THEN { << >> }
    ELSE { Append(l, CargoEntry(n, slot)) : l \in CargoListsOfLen(n - 1),
                                            slot \in CargoSlots }

\* an ItemSearchSystem constructed from MaxCargo placed items
InitSearch ==
    /\ cargo_data \in CargoListsOfLen(MaxCargo)
    /\ items_data \in { [ id \in 1..MaxCargo |-> ItemEntry(id, pr[id]) ] :
                          pr \in [1..MaxCargo -> Priorities] }
    /\ target_item_id = None
    /\ retrieval_steps = << >>
    /\ search_pc = "ready"
    /\ search_containers = << >>
    /\ search_result = << >>
    /\ IdleAStar
    /\ container = None
    /\ IdlePlanner
    /\ grid = << >>
    /\ occupied_cells = {}
    /\ IdleMatrixCalls
    /\ IdleRotations

CalculateRetrievalSteps(target) ==
    /\ search_pc = "ready"
    /\ target_item_id' = target
    /\ retrieval_steps' = calculate_retrieval_steps(items_data, cargo_data, target)
    /\ search_pc' = "returned"
    /\ UNCHANGED <<items_data, cargo_data, search_containers, search_result>>
    /\ UNCHANGED <<astarVars, sharedVars, placeVars, matrixVars, histVars, rotVars>>

\* a caller asks for the steps of a placed item
SearchCall ==
    \E target \in { cargo_data[i].item_id : i \in 1..Len(cargo_data) } :
        CalculateRetrievalSteps(target)

NextSearch == SearchCall

SpecSearch == InitSearch /\ [][NextSearch]_vars

\* the item ids of the steps of one action, in step order
IdsOf(steps, action) ==
    LET sel == SelectSeq(steps, LAMBDA st : st.action = action)
    IN  [ i \in 1..Len(sel) |-> sel[i].item_id ]

Reversed(s) == [ i \in 1..Len(s) |-> s[Len(s) + 1 - i] ]

\* C3: in a returned step list every remove step precedes the retrieve step,
\* every place step follows it, and the item ids of the place steps are the
\* item ids of the remove steps in reverse order
C3_StackDiscipline ==
    search_pc = "returned" =>
        /\ \A i, j \in 1..Len(retrieval_steps) :
              /\ (retrieval_steps[i].action = "remove"
                    /\ retrieval_steps[j].action = "retrieve") => i < j
              /\ (retrieval_steps[i].action = "retrieve"
                    /\ retrieval_steps[j].action = "place") => i < j
        /\ IdsOf(retrieval_steps, "place") = Reversed(IdsOf(retrieval_steps, "remove"))

\* a returned list that removes two different items
C3_Witness ==
    /\ search_pc = "returned"
    /\ Len(IdsOf(retrieval_steps, "remove")) >= 2
    /\ IdsOf(retrieval_steps, "remove")[1] # IdsOf(retrieval_steps, "remove")[2]

\* C4 as stated: every returned step list holds exactly one retrieve step,
\* for the target
C4_ExactlyOneRetrieve ==
    search_pc = "returned" => IdsOf(retrieval_steps, "retrieve") = <<target_item_id>>

\* C4 as the code has it: a returned step list that is not empty holds exactly
\* one retrieve step, for the target; the list is empty, with no retrieve step,
\* exactly when no item is removed
C4_OneRetrieveUnlessEmpty ==
    search_pc = "returned" =>
        /\ retrieval_steps # << >> =>
              IdsOf(retrieval_steps, "retrieve") = <<target_item_id>>
        /\ retrieval_steps = << >> <=> IdsOf(retrieval_steps, "remove") = << >>

C4_Witness ==
    /\ search_pc = "returned"
    /\ IdsOf(retrieval_steps, "retrieve") = <<target_item_id>>
    /\ IdsOf(retrieval_steps, "remove") # << >>

\* B is in front of T with overlapping width, and of higher priority
BlocksBySpec(b, t) ==
    /\ CargoOf(cargo_data, b).position.startCoordinates.depth_cm
         < CargoOf(cargo_data, t).position.startCoordinates.depth_cm
    /\ ~ (\/ CargoOf(cargo_data, b).position.endCoordinates.width_cm
               <= CargoOf(cargo_data, t).position.startCoordinates.width_cm
          \/ CargoOf(cargo_data, b).position.startCoordinates.width_cm
               >= CargoOf(cargo_data, t).position.endCoordinates.width_cm)
    /\ items_data[b].priority > items_data[t].priority

SameContainerOthers(t) ==
    { cargo_data[i].item_id : i \in { k \in 1..Len(cargo_data) :
        /\ cargo_data[k].item_id # t
        /\ cargo_data[k].container_id = CargoOf(cargo_data, t).container_id } }

RemovedIds == { retrieval_steps[i].item_id :
                  i \in { k \in 1..Len(retrieval_steps) :
                            retrieval_steps[k].action = "remove" } }

\* C5: an item B in the container of the target T is removed iff B starts at a
\* lower depth than T, the width intervals overlap and B has the higher
\* priority; heights play no role
C5_BlockingPredicate ==
    search_pc = "returned" =>
        \A b \in SameContainerOthers(target_item_id) :
            b \in RemovedIds <=> BlocksBySpec(b, target_item_id)

\* one item in front of the target is removed, another one in front of it, of
\* no higher priority and at another height, is not
C5_Witness ==
    /\ search_pc = "returned"
    /\ \E b, x \in SameContainerOthers(target_item_id) :
          /\ b \in RemovedIds
          /\ x \notin RemovedIds
          /\ is_blocking_any_priority(CargoOf(cargo_data, x), 0,
                                      CargoOf(cargo_data, target_item_id), 0)
          /\ CargoOf(cargo_data, b).position.startCoordinates.height_cm
               # CargoOf(cargo_data, target_item_id).position.startCoordinates.height_cm

\* C6: when no item in the container of the target satisfies the blocking
\* predicate, the returned step list is empty
C6_EmptyWhenUnblocked ==
    search_pc = "returned" =>
        ((\A b \in SameContainerOthers(target_item_id) : ~ BlocksBySpec(b, target_item_id))
            => retrieval_steps = << >>)

\* a target with another item in front of it that does not block it
C6_Witness ==
    /\ search_pc = "returned"
    /\ retrieval_steps = << >>
    /\ \E x \in SameContainerOthers(target_item_id) :
          is_blocking_any_priority(CargoOf(cargo_data, x), 0,
                                   CargoOf(cargo_data, target_item_id), 0)

-----------------------------------------------------------------------------
(* SparseMatrix used directly: sequences of occupy and clear calls *)

\* The boxes of the calls: cubes of edge 0, 5 and 10 at four corners of the floor
MatrixRegions ==
    { <<x, y, 0, x + e, y + e, e>> : x \in {0, 10}, y \in {0, 10}, e \in {0, 5, 10} }

\* the call just made, with what is_occupied answered for its box before it
Recorded(op, r) ==
    LET call == [op |-> op, region |-> r, was_occupied |-> is_occupied(grid, r)]
    IN  IF mx_hist = << >> THEN <<call>> ELSE <<mx_hist[Len(mx_hist)], call>>

Occupy(r) ==
    /\ mx_ops < MaxOps
    /\ \E m \in { occupy(grid, occupied_cells, r) } :
          /\ grid' = m.grid
          /\ occupied_cells' = m.occupied_cells
    /\ mx_hist' = Recorded("occupy", r)
    /\ mx_ops' = mx_ops + 1
    /\ UNCHANGED <<astarVars, sharedVars, placeVars, rotVars, searchVars>>

Clear(r) ==
    /\ mx_ops < MaxOps
    /\ \E m \in { clear(grid, occupied_cells, r) } :
          /\ grid' = m.grid
          /\ occupied_cells' = m.occupied_cells
    /\ mx_hist' = Recorded("clear", r)
    /\ mx_ops' = mx_ops + 1
    /\ UNCHANGED <<astarVars, sharedVars, placeVars, rotVars, searchVars>>

\* a fresh SparseMatrix
InitMatrix ==
    /\ grid = << >>
    /\ occupied_cells = {}
    /\ IdleMatrixCalls
    /\ container = None
    /\ IdlePlanner
    /\ IdleRotations
    /\ IdleSearch
    /\ IdleAStar

OccupyCall == \E r \in MatrixRegions : Occupy(r)

ClearCall == \E r \in MatrixRegions : Clear(r)

NextMatrix == OccupyCall \/ ClearCall

SpecMatrix == InitMatrix /\ [][NextMatrix]_vars

\* the last two calls were occupy(R); clear(R), and is_occupied(R) was false
\* before the occupy
OccupiedThenCleared(r) ==
    /\ Len(mx_hist) = 2
    /\ mx_hist[1] = [op |-> "occupy", region |-> r, was_occupied |-> FALSE]
    /\ mx_hist[2].op = "clear"
    /\ mx_hist[2].region = r

\* C9: from an index in which is_occupied(R) is false, occupy(R); clear(R)
\* leaves is_occupied(R) false and R out of get_occupied_regions()
C9_OccupyClear ==
    \A r \in MatrixRegions :
        OccupiedThenCleared(r) =>
            /\ ~ is_occupied(grid, r)
            /\ r \notin get_occupied_regions(grid, occupied_cells)

\* occupy(R); clear(R) of a box R that spans several cells, with another
\* region registered in the index
C9_Witness ==
    \E r \in MatrixRegions :
        /\ OccupiedThenCleared(r)
        /\ Cardinality(SpannedCells(r)) > 1
        /\ get_occupied_regions(grid, occupied_cells) # {}

-----------------------------------------------------------------------------
(* get_90degree_rotations on its own *)

\* the dimensions of the items handed to get_90degree_rotations
RotationShapes ==
    { <<w, d, h>> : w \in {2, 5, 10, 20}, d \in {2, 5, 10, 20}, h \in {2, 5, 10, 20} }

RotationItems ==
    { [item_id |-> i, width_cm |-> s[1], depth_cm |-> s[2], height_cm |-> s[3],
       priority |-> p] : i \in 1..MaxItems, s \in RotationShapes, p \in Priorities }

InitRotations ==
    /\ container \in Containers
    /\ IdleRotations
    /\ IdlePlanner
    /\ grid = << >>
    /\ occupied_cells = {}
    /\ IdleMatrixCalls
    /\ IdleSearch
    /\ IdleAStar

GetRotations(item) ==
    /\ rot_item' = item
    /\ rotations' = get_90degree_rotations(container, item)
    /\ UNCHANGED <<astarVars, sharedVars, placeVars, matrixVars, histVars, searchVars>>

RotationsCall == \E item \in RotationItems : GetRotations(item)

NextRotations == RotationsCall

SpecRotations == InitRotations /\ [][NextRotations]_vars

Dims(item) == <<item.width_cm, item.depth_cm, item.height_cm>>

\* the swap of two dimensions that a rotation tag stands for, applied to dims
SwapFor(tag, dims) ==
    IF tag = "ROTATE_X" THEN <<dims[1], dims[3], dims[2]>>
    ELSE IF tag = "ROTATE_Y" THEN <<dims[3], dims[2], dims[1]>>
    ELSE IF tag = "ROTATE_Z" THEN <<dims[2], dims[1], dims[3]>>
    ELSE dims

\* C10: the dimensions of every returned variant are a permutation of the
\* item's (width, depth, height); the swap of its tag applied again gives the
\* item's dimensions back; priority and item id are those of the item
C10_RotationSound ==
    \A k \in 1..Len(rotations) :
        /\ \E perm \in Permutations(1..3) :
              \A i \in 1..3 : Dims(rotations[k].item)[i] = Dims(rot_item)[perm[i]]
        /\ SwapFor(rotations[k].rotation, Dims(rotations[k].item)) = Dims(rot_item)
        /\ rotations[k].item.priority = rot_item.priority
        /\ rotations[k].item.item_id = rot_item.item_id

\* all three rotations are returned for an item of three different dimensions
C10_Witness ==
    /\ Len(rotations) = 4
    /\ Cardinality({ rot_item.width_cm, rot_item.depth_cm, rot_item.height_cm }) = 3
    /\ \A k \in 2..4 : Dims(rotations[k].item) # Dims(rot_item)

-----------------------------------------------------------------------------
(* PriorityAStarRetrieval.find_retrieval_path *)

\* the retrieval container is GridWidth x GridDepth x GridHeight cells
GridWidth == 6
GridDepth == 5
GridHeight == 2

\* how far beyond the container a target position is still accepted
target_tolerance == 5

\* cells that may be occupied when find_retrieval_path is called
ObstacleCandidates ==
    { <<3, 0, 1>>, <<4, 2, 1>>, <<4, 4, 0>>, <<5, 3, 0>>, <<5, 4, 1>>, <<0, 0, 1>> }

StartPositions == { <<0, 0, 0>>, <<0, 0, 1>> }

\* targets inside the container, one cell beyond its width, within the
\* tolerance and beyond it
TargetPositions ==
    { <<5, 3, 1>>, <<5, 4, 0>>, <<0, 0, 0>>,
      <<GridWidth, 3, 1>>, <<GridWidth + 2, 3, 1>>,
      <<GridWidth + target_tolerance + 1, 3, 1>> }

\* values of calculate_priority_score(itemId), in hundredths: 0.0 for an item
\* without data, 0.5 for an item of priority 0 without expiry and usage limit
PriorityBonuses == { 0, 50 }

\* the parent of the start node (None)
NoParent == << >>

directions ==
    << <<0, 0, 1>>, <<0, 0, -1>>, <<0, 1, 0>>, <<0, -1, 0>>, <<1, 0, 0>>, <<-1, 0, 0>> >>

Abs(n) == IF n < 0 THEN -n ELSE n

manhattan_distance(pos1, pos2) ==
    Abs(pos1[1] - pos2[1]) + Abs(pos1[2] - pos2[2]) + Abs(pos1[3] - pos2[3])

\* the bounds check of is_valid_position (<=) in place of get_neighbors' own (<)
get_neighbors_inclusive(d, occ, pos) ==
    LET moved == [k \in 1..Len(directions) |->
                     <<pos[1] + directions[k][1], pos[2] + directions[k][2],
                       pos[3] + directions[k][3]>>]
    IN  SelectSeq(moved, LAMBDA new_pos :
            /\ 0 <= new_pos[1] /\ new_pos[1] <= d.width
            /\ 0 <= new_pos[2] /\ new_pos[2] <= d.depth
            /\ 0 <= new_pos[3] /\ new_pos[3] <= d.height
            /\ new_pos \notin occ)

\* neighbours without the test of occupied_spaces
get_neighbors_through_occupied(d, occ, pos) ==
    LET moved == [k \in 1..Len(directions) |->
                     <<pos[1] + directions[k][1], pos[2] + directions[k][2],
                       pos[3] + directions[k][3]>>]
    IN  SelectSeq(moved, LAMBDA new_pos :
            /\ 0 <= new_pos[1] /\ new_pos[1] < d.width
            /\ 0 <= new_pos[2] /\ new_pos[2] < d.depth
            /\ 0 <= new_pos[3] /\ new_pos[3] < d.height)

get_neighbors(d, occ, pos) ==
    LET moved == [k \in 1..Len(directions) |->
                     <<pos[1] + directions[k][1], pos[2] + directions[k][2],
                       pos[3] + directions[k][3]>>]
    IN  SelectSeq(moved, LAMBDA new_pos :
            /\ 0 <= new_pos[1] /\ new_pos[1] < d.width
            /\ 0 <= new_pos[2] /\ new_pos[2] < d.depth
            /\ 0 <= new_pos[3] /\ new_pos[3] < d.height
            /\ new_pos \notin occ)

is_valid_position(d, occ, pos) ==
    /\ 0 <= pos[1] /\ pos[1] <= d.width
    /\ 0 <= pos[2] /\ pos[2] <= d.depth
    /\ 0 <= pos[3] /\ pos[3] <= d.height
    /\ pos \notin occ

\* a comparison that subtracts the bonus on the left side only
lt_bonus_left_only(n, a, b) ==
    n[a].f_cost * 100 - n[a].priority_bonus < n[b].f_cost * 100

\* RetrievalNode.__lt__ on the nodes at positions a and b of the node table n
lt(n, a, b) ==
    n[a].f_cost * 100 - n[a].priority_bonus < n[b].f_cost * 100 - n[b].priority_bonus

\* Op(v) with v evaluated once: TLC evaluates an operator argument again at
\* each place that reads it, so an argument built by a recursion is bound to
\* its value before it is read
Bind(v, Op(_)) == CHOOSE r \in { Op(x) : x \in {v} } : TRUE

\* heapq._siftdown; heap positions count from 0 as in the list
RECURSIVE siftdown(_, _, _, _, _)
siftdown(n, heap0, startpos, pos, newitem) ==
    Bind(heap0, LAMBDA heap :
    IF pos > startpos
    THEN LET parentpos == (pos - 1) \div 2
             parent == heap[parentpos + 1]
         IN  IF lt(n, newitem, parent)
             THEN siftdown(n, [heap EXCEPT ![pos + 1] = parent], startpos,
                           parentpos, newitem)
             ELSE [heap EXCEPT ![pos + 1] = newitem]
    ELSE [heap EXCEPT ![pos + 1] = newitem])

\* heapq._siftup, first loop: the smaller child moves up until a leaf is hit
RECURSIVE bubble_up(_, _, _)
bubble_up(n, heap0, pos) ==
    Bind(heap0, LAMBDA heap :
    LET endpos == Len(heap)
        leftpos == 2 * pos + 1
        rightpos == leftpos + 1
        childpos == IF rightpos < endpos
                       /\ ~ lt(n, heap[leftpos + 1], heap[rightpos + 1])
                    THEN rightpos ELSE leftpos
    IN  IF leftpos < endpos
        THEN bubble_up(n, [heap EXCEPT ![pos + 1] = heap[childpos + 1]], childpos)
        ELSE [heap |-> heap, pos |-> pos])

\* heapq._siftup
siftup(n, heap, pos) ==
    LET newitem == heap[pos + 1]
    IN  Bind(bubble_up(n, heap, pos), LAMBDA leaf :
            siftdown(n, [leaf.heap EXCEPT ![leaf.pos + 1] = newitem], pos, leaf.pos,
                     newitem))

heappush(n, heap, item) == siftdown(n, Append(heap, item), 0, Len(heap), item)

heappop_peek(n, heap) == [item |-> heap[1], heap |-> heap]

heappop(n, heap) ==
    LET lastelt == heap[Len(heap)]
        rest == SubSeq(heap, 1, Len(heap) - 1)
    IN  IF rest # << >>
        THEN [item |-> rest[1], heap |-> siftup(n, [rest EXCEPT ![1] = lastelt], 0)]
        ELSE [item |-> lastelt, heap |-> rest]

\* the for loop over the neighbours of the popped node, from the k-th on;
\* st is [open_pq, open_set, nodes], bonus the local priority_bonus
RECURSIVE Expand(_, _, _, _, _, _)
Expand(nbrs, k, current_pos, closed, bonus, st0) ==
    Bind(st0, LAMBDA st :
    IF k > Len(nbrs) THEN st
    ELSE LET neighbor_pos == nbrs[k]
             g_cost == st.nodes[current_pos].g_cost + 1
         IN  IF neighbor_pos \in closed
             THEN Expand(nbrs, k + 1, current_pos, closed, bonus, st)
             ELSE IF neighbor_pos \notin st.open_set
             THEN LET h_cost == manhattan_distance(neighbor_pos, target_pos_int)
                  IN  Bind((neighbor_pos :> [g_cost |-> g_cost, h_cost |-> h_cost,
                                             f_cost |-> g_cost + h_cost,
                                             parent |-> current_pos,
                                             priority_bonus |-> bonus]) @@ st.nodes,
                           LAMBDA n1 :
                      Expand(nbrs, k + 1, current_pos, closed, bonus,
                             [open_pq |-> heappush(n1, st.open_pq, neighbor_pos),
                              open_set |-> st.open_set \cup {neighbor_pos},
                              nodes |-> n1]))
             ELSE IF g_cost < st.nodes[neighbor_pos].g_cost
             THEN Bind([st.nodes EXCEPT
                           ![neighbor_pos].g_cost = g_cost,
                           ![neighbor_pos].f_cost = g_cost + st.nodes[neighbor_pos].h_cost,
                           ![neighbor_pos].parent = current_pos],
                       LAMBDA n1 :
                      Expand(nbrs, k + 1, current_pos, closed, bonus,
                             [open_pq |-> heappush(n1, st.open_pq, neighbor_pos),
                              open_set |-> st.open_set,
                              nodes |-> n1]))
             ELSE Expand(nbrs, k + 1, current_pos, closed, bonus, st))

\* the steps from the start to pos along the parent links
RECURSIVE StepsTo(_, _)
StepsTo(n, pos) ==
    IF n[pos].parent = NoParent THEN << >>
    ELSE Append(StepsTo(n, n[pos].parent), [from |-> n[pos].parent, to |-> pos])

reconstruct_path(n, final_pos) ==
    << [steps |-> StepsTo(n, final_pos),
        total_cost |-> n[final_pos].g_cost,
        priority_score |-> n[final_pos].priority_bonus] >>

InitAStar ==
    /\ container_dims = [width |-> GridWidth, depth |-> GridDepth, height |-> GridHeight]
    /\ occupied_spaces \in SUBSET ObstacleCandidates
    /\ start_pos_int \in StartPositions
    /\ target_pos_int \in TargetPositions
    /\ priority_bonus \in PriorityBonuses
    /\ open_pq = << >>
    /\ open_set = {}
    /\ closed_set = {}
    /\ nodes = << >>
    /\ path = << >>
    /\ astar_pc = "called"
    /\ popped_closed = FALSE
    /\ container = None
    /\ IdlePlanner
    /\ grid = << >>
    /\ occupied_cells = {}
    /\ IdleMatrixCalls
    /\ IdleRotations
    /\ IdleSearch

\* find_retrieval_path up to the while loop: validation of the two positions,
\* then the start node is pushed
Validate ==
    /\ astar_pc = "called"
    /\ LET start_valid == is_valid_position(container_dims, occupied_spaces, start_pos_int)
           occ == IF ~ start_valid /\ start_pos_int = <<0, 0, 0>>
                  THEN occupied_spaces \ {start_pos_int} ELSE occupied_spaces
           target_valid == is_valid_position(container_dims, occ, target_pos_int)
           tolerated ==
               /\ 0 <= target_pos_int[1]
               /\ target_pos_int[1] <= container_dims.width + target_tolerance
               /\ 0 <= target_pos_int[2]
               /\ target_pos_int[2] <= container_dims.depth + target_tolerance
               /\ 0 <= target_pos_int[3]
               /\ target_pos_int[3] <= container_dims.height + target_tolerance
           h_cost == manhattan_distance(start_pos_int, target_pos_int)
           n0 == start_pos_int :> [g_cost |-> 0, h_cost |-> h_cost, f_cost |-> h_cost,
                                   parent |-> NoParent,
                                   priority_bonus |-> priority_bonus]
       IN  /\ occupied_spaces' = occ
           /\ IF \/ ~ start_valid /\ start_pos_int # <<0, 0, 0>>
                 \/ ~ target_valid /\ ~ tolerated
              THEN /\ path' = << >>
                   /\ astar_pc' = "done"
                   /\ UNCHANGED <<open_pq, open_set, closed_set, nodes>>
              ELSE /\ open_set' = {start_pos_int}
                   /\ closed_set' = {}
                   /\ nodes' = n0
                   /\ open_pq' = heappush(n0, << >>, start_pos_int)
                   /\ astar_pc' = "loop"
                   /\ path' = path
    /\ UNCHANGED <<container_dims, start_pos_int, target_pos_int, priority_bonus,
                   popped_closed>>
    /\ UNCHANGED <<sharedVars, placeVars, matrixVars, histVars, rotVars, searchVars>>

\* one iteration of the while loop: a node is popped and, unless it is the
\* target, closed and expanded
Iterate ==
    /\ astar_pc = "loop"
    /\ open_pq # << >>
    /\ \E popped \in { heappop(nodes, open_pq) } :
         LET current_pos == popped.item
         IN  /\ popped_closed' = (popped_closed \/ current_pos \in closed_set)
             \* the popped entry is the node object that nodes[current_pos] holds
             /\ IF nodes[current_pos].f_cost * 100 - nodes[current_pos].priority_bonus
                      > nodes[current_pos].f_cost * 100 - nodes[current_pos].priority_bonus
                THEN /\ open_pq' = popped.heap
                     /\ UNCHANGED <<open_set, closed_set, nodes, path, astar_pc>>
                ELSE IF current_pos = target_pos_int
                THEN /\ open_pq' = popped.heap
                     /\ path' = reconstruct_path(nodes, current_pos)
                     /\ astar_pc' = "done"
                     /\ UNCHANGED <<open_set, closed_set, nodes>>
                ELSE \E st \in { Expand(get_neighbors(container_dims, occupied_spaces,
                                                      current_pos),
                                        1, current_pos, closed_set \cup {current_pos},
                                        priority_bonus,
                                        [open_pq |-> popped.heap,
                                         open_set |-> open_set \ {current_pos},
                                         nodes |-> nodes]) } :
                         /\ open_pq' = st.open_pq
                         /\ open_set' = st.open_set
                         /\ nodes' = st.nodes
                         /\ closed_set' = closed_set \cup {current_pos}
                         /\ UNCHANGED <<path, astar_pc>>
    /\ UNCHANGED <<container_dims, occupied_spaces, start_pos_int, target_pos_int,
                   priority_bonus>>
    /\ UNCHANGED <<sharedVars, placeVars, matrixVars, histVars, rotVars, searchVars>>

\* the open queue is empty: no path found
Exhausted ==
    /\ astar_pc = "loop"
    /\ open_pq = << >>
    /\ path' = << >>
    /\ astar_pc' = "done"
    /\ UNCHANGED <<container_dims, occupied_spaces, start_pos_int, target_pos_int,
                   priority_bonus, open_pq, open_set, closed_set, nodes,
                   popped_closed>>
    /\ UNCHANGED <<sharedVars, placeVars, matrixVars, histVars, rotVars, searchVars>>

NextAStar == Validate \/ Iterate \/ Exhausted

SpecAStar == InitAStar /\ [][NextAStar]_vars

\* the cells of the container that are not occupied
FreeCells ==
    { c \in (0..(container_dims.width - 1)) \X (0..(container_dims.depth - 1))
              \X (0..(container_dims.height - 1)) : c \notin occupied_spaces }

\* breadth-first search through free cells: the number of unit steps from the
\* frontier (at distance d from the start) to the cell t, or -1 if there is no way
RECURSIVE BFSDistance(_, _, _, _)
BFSDistance(frontier, seen, d, t) ==
    IF t \in frontier THEN d
    ELSE IF frontier = {} THEN -1
    ELSE LET next == { c \in FreeCells \ seen :
                          \E f \in frontier : manhattan_distance(c, f) = 1 }
         IN  BFSDistance(next, seen \cup next, d + 1, t)

ShortestDistance == BFSDistance({start_pos_int}, {start_pos_int}, 0, target_pos_int)

\* find_retrieval_path has returned for a free start and a free target in the grid
ReturnedForFreeCells ==
    /\ astar_pc = "done"
    /\ start_pos_int \in FreeCells
    /\ target_pos_int \in FreeCells

\* C7: with priority bonus 0 and free start and target in the grid, a returned
\* path has as many steps (total_cost) as the shortest 6-connected way through
\* free cells found by breadth-first search
C7_ShortestPath ==
    (ReturnedForFreeCells /\ priority_bonus = 0 /\ path # << >>) =>
        /\ path[1].total_cost = ShortestDistance
        /\ Len(path[1].steps) = ShortestDistance

\* C8: for a free start and a free target in the grid, find_retrieval_path
\* returns None exactly when no chain of free cells leads from the start to
\* the target, and a path otherwise
C8_NotFoundIffUnreachable ==
    ReturnedForFreeCells => (path = << >> <=> ShortestDistance = -1)

\* None is returned after the search has closed several cells without
\* reaching the target
C8_Witness ==
    /\ ReturnedForFreeCells
    /\ path = << >>
    /\ Cardinality(closed_set) > 1
    /\ open_pq = << >>

-----------------------------------------------------------------------------
(* Several planners: AdvancedCargoPlacement._container_states *)

\* planners constructed in one process
MaxPlanners == 2

\* container_dims handed to the constructor, in tenths of a centimetre
PlannerDims ==
    { [width_cm |-> 200, depth_cm |-> 100, height_cm |-> 100],
      [width_cm |-> 205, depth_cm |-> 100, height_cm |-> 109],
      [width_cm |-> 100, depth_cm |-> 200, height_cm |-> 100] }

\* the requests made of a planner here: one item of priority 1
SingleItemLists ==
    { << [item_id |-> 1, width_cm |-> s[1], depth_cm |-> s[2], height_cm |-> s[3],
          priority |-> 1] >> : s \in ItemShapes }

\* int() of the three dimensions; container_key is the string built from them
container_key(d) ==
    [width_cm |-> d.width_cm \div 10, depth_cm |-> d.depth_cm \div 10,
     height_cm |-> d.height_cm \div 10]

\* the entry made for a key that is not in _container_states
FreshState == [grid |-> << >>, occupied_cells |-> {}, current_placements |-> << >>]

\* every planner gets a SparseMatrix and a placement map of its own
planner_state_per_instance(states, key) == FreshState

\* the state a planner with this key uses: the entry of the key, made if missing
planner_state(states, key) ==
    IF key \in DOMAIN states THEN states[key] ELSE FreshState

\* _container_states with the entry of the active planner's key written out
\* (the active planner's SparseMatrix and placement map are grid,
\* occupied_cells and current_placements)
AllStates ==
    (container :> [grid |-> grid, occupied_cells |-> occupied_cells,
                   current_placements |-> current_placements]) @@ container_states

\* AdvancedCargoPlacement(container_dims), after an earlier planner
NewPlanner(d) ==
    /\ pc \in {"idle", "done"}
    /\ Len(planners) < MaxPlanners
    /\ \E st \in { planner_state(AllStates, container_key(d)) } :
          /\ grid' = st.grid
          /\ occupied_cells' = st.occupied_cells
          /\ current_placements' = st.current_placements
    /\ container' = container_key(d)
    /\ container_states' = AllStates
    /\ planners' = Append(planners, container_key(d))
    /\ items_dict' = << >>
    /\ sorted_items' = << >>
    /\ placements' = << >>
    /\ rearrangements' = << >>
    /\ idx' = 0
    /\ pc' = "idle"
    /\ UNCHANGED <<astarVars, histVars, rotVars, searchVars>>

\* the first planner of the process
InitShared ==
    /\ \E d \in PlannerDims : container = container_key(d)
    /\ planners = <<container>>
    /\ container_states = << >>
    /\ grid = << >>
    /\ occupied_cells = {}
    /\ current_placements = << >>
    /\ items_dict = << >>
    /\ sorted_items = << >>
    /\ placements = << >>
    /\ rearrangements = << >>
    /\ idx = 0
    /\ pc = "idle"
    /\ IdleMatrixCalls
    /\ IdleRotations
    /\ IdleSearch
    /\ IdleAStar

Construct == \E d \in PlannerDims : NewPlanner(d)

SingleItemCall == pc = "idle" /\ \E items \in SingleItemLists : Begin(items)

NextShared ==
    \/ Construct
    \/ SingleItemCall
    \/ FirstPass
    \/ FirstPassEnd
    \/ SecondPass
    \/ Return

SpecShared == InitShared /\ [][NextShared]_vars

\* this step constructs a planner whose container key an earlier planner has
ConstructsWithKnownKey ==
    /\ Len(planners') = Len(planners) + 1
    /\ \E i \in 1..Len(planners) : planners[i] = planners'[Len(planners')]

\* C11: a planner constructed with the integer-truncated dimensions of an
\* earlier planner works on that planner's occupancy index and placement map:
\* it starts with the regions and placements the earlier planner left
C11_SharedIndex ==
    [][ ConstructsWithKnownKey =>
          /\ grid' = AllStates[container'].grid
          /\ occupied_cells' = AllStates[container'].occupied_cells
          /\ current_placements' = AllStates[container'].current_placements
          /\ \A r \in get_occupied_regions(AllStates[container'].grid,
                                           AllStates[container'].occupied_cells) :
                 r \in get_occupied_regions(grid', occupied_cells') ]_vars

\* a second planner for a container of the same truncated dimensions has run
\* a request on the index in which the first planner's item is registered, and
\* its item did not get the position (0,0,0)
C11_Witness ==
    /\ Len(planners) = 2
    /\ planners[1] = planners[2]
    /\ pc = "done"
    /\ Cardinality(get_occupied_regions(grid, occupied_cells)) = 2
    /\ Len(placements) = 1
    /\ placements[1].startCoordinates # <<0, 0, 0>>

-----------------------------------------------------------------------------
(* The second pass of find_optimal_placement *)

\* the positions, at whole centimetres, at which a box of the item's size lies
\* inside the container
InBoundsPositions(c, item) ==
    { <<x, y, z>> : x \in 0..(c.width_cm - item.width_cm),
                    y \in 0..(c.depth_cm - item.depth_cm),
                    z \in 0..(c.height_cm - item.height_cm) }

\* no rotation variant of the item has an in-bounds position that the index
\* reports free
NoFreePosition(item) ==
    LET rots == get_90degree_rotations(container, item)
    IN  \A r \in 1..Len(rots) : \A pos \in InBoundsPositions(container, rots[r].item) :
            is_occupied(grid, RegionAt(pos, rots[r].item))

\* rearrange_for_new_item returns success=False for every rotation variant
RearrangementFails(item) ==
    LET rots == get_90degree_rotations(container, item)
    IN  \A r \in 1..Len(rots) :
            LET re == rearrange_for_new_item(container, grid, occupied_cells,
                                             current_placements, items_dict, rots[r].item)
            IN  ~ re.raised /\ ~ re.success

\* the second loop is at an item the first loop did not place
SecondPassAt(item) ==
    /\ pc = "pass2"
    /\ idx <= Len(sorted_items)
    /\ sorted_items[idx] = item
    /\ \A i \in 1..Len(placements) : placements[i].item_id # item.item_id

\* C12: an item without a free in-bounds position in any rotation, for which
\* rearrangement does not succeed, is left out of the placements, and no
\* error is raised
C12_DroppedWhenNoFit ==
    [][ \A item \in UNION { ItemsWithId(i) : i \in 1..MaxItems } :
          (SecondPassAt(item) /\ NoFreePosition(item) /\ RearrangementFails(item)) =>
              /\ placements' = placements
              /\ pc' # "raised" ]_vars

-----------------------------------------------------------------------------
(* ItemSearchSystem.search_by_id *)

\* self.containers of the search system: the container of zone contA alone, or
\* the containers of both zones
ContainerLists ==
    { << [container_id |-> "contA", zone |-> "contA"] >>,
      << [container_id |-> "contA", zone |-> "contA"],
         [container_id |-> "contB", zone |-> "contB"] >> }

\* items_data for a set of known ids: all of priority 1, or priority = id
ItemIndexes ==
    { [ id \in S |-> ItemEntry(id, IF rising THEN id ELSE 1) ] :
        S \in SUBSET (1..MaxCargo), rising \in BOOLEAN }

\* the item ids that have a cargo_data entry
PlacedIds(cd) == { cd[i].item_id : i \in 1..Len(cd) }

\* the first container, in dict order, whose zone is the zone asked for; 0 if none
ContainerForZone(cs, zone) ==
    IF \E i \in 1..Len(cs) : cs[i].zone = zone
    THEN CHOOSE i \in 1..Len(cs) :
            cs[i].zone = zone /\ \A j \in 1..(i - 1) : cs[j].zone # zone
    ELSE 0

\* _calculate_retrieval_steps looks up self.items_data[item_id] for every other
\* item of the target's container: KeyError for an id without items_data
StepsLookupFails(idata, cd, id) ==
    \E i \in 1..Len(cd) :
        /\ cd[i].container_id = CargoOf(cd, id).container_id
        /\ cd[i].item_id # id
        /\ cd[i].item_id \notin DOMAIN idata

\* the result for an item that has cargo_data
FoundResult(idata, cd, cs, id) ==
    LET cargo_info == CargoOf(cd, id)
        c == ContainerForZone(cs, cargo_info.zone)
    IN  IF c = 0
        THEN [raised |-> FALSE,
              result |-> [success |-> FALSE, found |-> FALSE, message |-> "no container"]]
        ELSE IF StepsLookupFails(idata, cd, id)
        THEN [raised |-> TRUE]
        ELSE [raised |-> FALSE,
              result |-> [success |-> TRUE, found |-> TRUE,
                          item |-> [item_id |-> id, name |-> idata[id].name,
                                    container_id |-> cs[c].container_id,
                                    zone |-> cargo_info.zone,
                                    position |-> cargo_info.position],
                          retrieval_steps |-> calculate_retrieval_steps(idata, cd, id)]]

\* search_by_id without the test for an item that is not placed:
\* self.cargo_data[item_id] raises KeyError
search_by_id_no_placed_test(idata, cd, cs, id) ==
    IF id \notin DOMAIN idata
    THEN [raised |-> FALSE,
          result |-> [success |-> TRUE, found |-> FALSE, message |-> "not in inventory"]]
    ELSE IF id \notin PlacedIds(cd)
    THEN [raised |-> TRUE]
    ELSE FoundResult(idata, cd, cs, id)

search_by_id(idata, cd, cs, id) ==
    IF id \notin DOMAIN idata
    THEN [raised |-> FALSE,
          result |-> [success |-> TRUE, found |-> FALSE, message |-> "not in inventory"]]
    ELSE IF id \notin PlacedIds(cd)
    THEN [raised |-> FALSE,
          result |-> [success |-> TRUE, found |-> FALSE, message |-> "not placed"]]
    ELSE FoundResult(idata, cd, cs, id)

\* an ItemSearchSystem over the first n items placed, n <= MaxCargo, with
\* items_data for some of the ids
InitSearchById ==
    /\ cargo_data \in UNION { CargoListsOfLen(n) : n \in 0..MaxCargo }
    /\ items_data \in ItemIndexes
    /\ search_containers \in ContainerLists
    /\ target_item_id = None
    /\ retrieval_steps = << >>
    /\ search_result = << >>
    /\ search_pc = "ready"
    /\ IdleAStar
    /\ container = None
    /\ IdlePlanner
    /\ grid = << >>
    /\ occupied_cells = {}
    /\ IdleMatrixCalls
    /\ IdleRotations

SearchById(id) ==
    /\ search_pc = "ready"
    /\ target_item_id' = id
    /\ \E out \in { search_by_id(items_data, cargo_data, search_containers, id) } :
          IF out.raised
          THEN /\ search_pc' = "raised"
               /\ UNCHANGED <<search_result, retrieval_steps>>
          ELSE /\ search_pc' = "returned"
               /\ search_result' = out.result
               /\ retrieval_steps' = IF out.result.found
                                     THEN out.result.retrieval_steps ELSE << >>
    /\ UNCHANGED <<items_data, cargo_data, search_containers>>
    /\ UNCHANGED <<astarVars, sharedVars, placeVars, matrixVars, histVars, rotVars>>

\* a caller searches for an id, known or not
SearchByIdCall == \E id \in 1..(MaxCargo + 1) : SearchById(id)

NextSearchById == SearchByIdCall

SpecSearchById == InitSearchById /\ [][NextSearchById]_vars

\* search_by_id was called for an id without items_data or without cargo_data
SearchedForMissing ==
    /\ search_pc # "ready"
    /\ \/ target_item_id \notin DOMAIN items_data
       \/ target_item_id \notin PlacedIds(cargo_data)

\* C14: search_by_id for an id that is not in the items index, or is in it but
\* has no cargo position, returns a result with found = false and without
\* retrieval steps, and does not raise
C14_NotFound ==
    SearchedForMissing =>
        /\ search_pc = "returned"
        /\ search_result.found = FALSE
        /\ "retrieval_steps" \notin DOMAIN search_result

\* the search was for an item of the index that is not among the placed items
C14_Witness ==
    /\ SearchedForMissing
    /\ target_item_id \in DOMAIN items_data
    /\ cargo_data # << >>
    /\ search_pc = "returned"
    /\ search_result.found = FALSE

-----------------------------------------------------------------------------
(* The first pass of find_optimal_placement *)

\* a container with four scan positions along its width
WideContainers == { [width_cm |-> 40, depth_cm |-> 10, height_cm |-> 10] }

\* a planner for a wide container, the first of the process
InitPlaceWide ==
    /\ container \in WideContainers
    /\ grid = << >>
    /\ occupied_cells = {}
    /\ current_placements = << >>
    /\ items_dict = << >>
    /\ sorted_items = << >>
    /\ placements = << >>
    /\ rearrangements = << >>
    /\ idx = 0
    /\ pc = "idle"
    /\ container_states = << >>
    /\ planners = <<container>>
    /\ IdleMatrixCalls
    /\ IdleRotations
    /\ IdleSearch
    /\ IdleAStar

SpecPlaceWide == InitPlaceWide /\ [][NextPlace]_vars

\* priority and volume of the request item a placement is for
PriorityOf(placement) == items_dict[placement.item_id].priority

VolumeOf(placement) ==
    items_dict[placement.item_id].width_cm * items_dict[placement.item_id].depth_cm
        * items_dict[placement.item_id].height_cm

\* C15: while the first pass runs, the placements made so far are in the order
\* of descending priority and, within a priority, of descending volume: no
\* placement comes after one of strictly lower priority, or after one of the
\* same priority and strictly smaller volume
C15_PriorityThenVolume ==
    pc = "pass1" =>
        \A i, j \in 1..Len(placements) :
            i < j => /\ PriorityOf(placements[i]) >= PriorityOf(placements[j])
                     /\ PriorityOf(placements[i]) = PriorityOf(placements[j])
                            => VolumeOf(placements[i]) >= VolumeOf(placements[j])

\* the first pass has placed three items; the first two have the same priority
\* and the larger one, which came later in the request, was placed first; the
\* third has a lower priority and came first in the request
C15_Witness ==
    /\ pc = "pass1"
    /\ Len(placements) = 3
    /\ PriorityOf(placements[1]) = PriorityOf(placements[2])
    /\ VolumeOf(placements[1]) > VolumeOf(placements[2])
    /\ placements[1].item_id > placements[2].item_id
    /\ PriorityOf(placements[2]) > PriorityOf(placements[3])
    /\ placements[3].item_id = 1

-----------------------------------------------------------------------------
(* find_optimal_placement in containers with several scan positions on
   every axis *)

\* a container with four scan positions along its width, and one with two scan
\* positions along every axis
ScanContainers ==
    { [width_cm |-> 40, depth_cm |-> 10, height_cm |-> 10],
      [width_cm |-> 20, depth_cm |-> 20, height_cm |-> 20] }

\* the items of a request with the least or the greatest priority
ScanItemsWithId(i) ==
    { it \in ItemsWithId(i) : it.priority \in {1, MaxPriority} }

RECURSIVE ScanItemListsOfLen(_)
ScanItemListsOfLen(n) ==
    IF n = 0 THEN { << >> }
    ELSE { Append(l, it) : l \in ScanItemListsOfLen(n - 1), it \in ScanItemsWithId(n) }

ScanItemLists == UNION { ScanItemListsOfLen(n) : n \in 0..MaxItems }

InitPlaceScan ==
    /\ container \in ScanContainers
    /\ grid = << >>
    /\ occupied_cells = {}
    /\ current_placements = << >>
    /\ items_dict = << >>
    /\ sorted_items = << >>
    /\ placements = << >>
    /\ rearrangements = << >>
    /\ idx = 0
    /\ pc = "idle"
    /\ container_states = << >>
    /\ planners = <<container>>
    /\ IdleMatrixCalls
    /\ IdleRotations
    /\ IdleSearch
    /\ IdleAStar

ScanCall == pc = "idle" /\ \E items \in ScanItemLists : Begin(items)

NextPlaceScan ==
    \/ ScanCall
    \/ FirstPass
    \/ FirstPassEnd
    \/ SecondPass
    \/ Return

SpecPlaceScan == InitPlaceScan /\ [][NextPlaceScan]_vars

\* the positions of a scan in steps of 10 from 0 at which a box of the item's
\* size lies inside the container and the index reports its region free
FreeStepPositions(item) ==
    { pos \in (0..(container.width_cm \div 10)) \X (0..(container.depth_cm \div 10))
                \X (0..(container.height_cm \div 10)) :
        /\ pos[1] * 10 + item.width_cm <= container.width_cm
        /\ pos[2] * 10 + item.depth_cm <= container.depth_cm
        /\ pos[3] * 10 + item.height_cm <= container.height_cm
        /\ ~ is_occupied(grid, <<pos[1] * 10, pos[2] * 10, pos[3] * 10,
                                 pos[1] * 10 + item.width_cm,
                                 pos[2] * 10 + item.depth_cm,
                                 pos[3] * 10 + item.height_cm>>) }

\* the first of a set of step positions with x outermost and z innermost
FirstXYZ(S) ==
    CHOOSE p \in S : \A q \in S :
        p[1] * 10000 + p[2] * 100 + p[3] <= q[1] * 10000 + q[2] * 100 + q[3]

\* the placement C16 expects for the item the first loop is at: none if no
\* variant has a free position, else the first such variant at its first
\* free position
ExpectedFirstPass(item) ==
    LET rots == get_90degree_rotations(container, item)
        ok == { r \in 1..Len(rots) : FreeStepPositions(rots[r].item) # {} }
    IN  IF ok = {} THEN << >>
        ELSE LET r == CHOOSE r \in ok : \A q \in ok : r <= q
                 p == FirstXYZ(FreeStepPositions(rots[r].item))
             IN  << [item_id |-> item.item_id,
                     rotation |-> rots[r].rotation,
                     startCoordinates |-> <<p[1] * 10, p[2] * 10, p[3] * 10>>,
                     endCoordinates |-> <<p[1] * 10 + rots[r].item.width_cm,
                                          p[2] * 10 + rots[r].item.depth_cm,
                                          p[3] * 10 + rots[r].item.height_cm>>] >>

\* C16: every iteration of the first loop places its item in the first
\* rotation variant, unrotated first, that has an in-bounds position reported
\* free, at the first such position of the scan x outer, y middle, z inner in
\* steps of 10 from 0, and places nothing if there is no such variant; the
\* first item of an empty container that it fits goes unrotated to (0,0,0)
C16_FirstFreeInScanOrder ==
    [][ (pc = "pass1" /\ idx <= Len(sorted_items)) =>
          /\ placements' = placements \o ExpectedFirstPass(sorted_items[idx])
          /\ (/\ grid = << >>
              /\ sorted_items[idx].width_cm <= container.width_cm
              /\ sorted_items[idx].depth_cm <= container.depth_cm
              /\ sorted_items[idx].height_cm <= container.height_cm)
             => /\ placements'[Len(placements')].rotation = "NO_ROTATION"
                /\ placements'[Len(placements')].startCoordinates = <<0, 0, 0>> ]_vars

\* the first pass has placed three items of the same size in the container
\* 20x20x20, at (0,0,0), then (0,0,10), then (0,10,0)
C16_Witness ==
    /\ pc = "pass1"
    /\ Len(placements) = 3
    /\ placements[1].startCoordinates = <<0, 0, 0>>
    /\ placements[2].startCoordinates = <<0, 0, 10>>
    /\ placements[3].startCoordinates = <<0, 10, 0>>

\* the region of the placement a step of the second loop appends
NewRegion ==
    LET p == placements'[Len(placements')]
    IN  <<p.startCoordinates[1], p.startCoordinates[2], p.startCoordinates[3],
          p.endCoordinates[1], p.endCoordinates[2], p.endCoordinates[3]>>

\* the regions registered in the cells a region spans
RegionsIn(g, r) == UNION { GridAt(g, c) : c \in SpannedCells(r) }

\* C17: when the second loop places an item at a position the index reported
\* occupied, moves tagged temporary or final were returned for the step, and
\* the index no longer registers, at their old position, the regions that
\* made the position occupied
C17_RearrangedBeforeOccupiedPlacement ==
    [][ (/\ pc = "pass2"
         /\ Len(placements') = Len(placements) + 1
         /\ is_occupied(grid, NewRegion)) =>
          /\ Len(rearrangements') > Len(rearrangements)
          /\ \A i \in (Len(rearrangements) + 1)..Len(rearrangements') :
                 rearrangements'[i].type \in {"temporary", "final"}
          /\ RegionsIn(grid, NewRegion) \cap RegionsIn(grid', NewRegion) = {} ]_vars

\* C18: every occupy and clear call leaves occupied_cells equal to the set of
\* cells with a non-empty region set; occupy(R) adds R to
\* get_occupied_regions() and clear(R) removes it, so that the result is the
\* set of regions occupied and not cleared since; clear(R) takes R out of every
\* cell R spans and leaves each other registered region in every cell it spans
C18_IndexExact ==
    [][ mx_ops' = mx_ops + 1 =>
          LET call == mx_hist'[Len(mx_hist')]
              R == call.region
              before == get_occupied_regions(grid, occupied_cells)
              after == get_occupied_regions(grid', occupied_cells')
          IN  /\ occupied_cells' = { c \in DOMAIN grid' : grid'[c] # {} }
              /\ call.op = "occupy" => after = before \cup {R}
              /\ call.op = "clear" =>
                    /\ after = before \ {R}
                    /\ \A c \in SpannedCells(R) : R \notin GridAt(grid', c)
                    /\ \A Q \in before \ {R} : \A c \in SpannedCells(Q) :
                           Q \in GridAt(grid', c) ]_vars

\* the last two calls were occupy(R); clear(R) of a region R that spans
\* several cells, and a region that shares a cell with R is still registered
C18_Witness ==
    /\ Len(mx_hist) = 2
    /\ mx_hist[1].op = "occupy"
    /\ mx_hist[2].op = "clear"
    /\ mx_hist[1].region = mx_hist[2].region
    /\ Cardinality(SpannedCells(mx_hist[2].region)) > 1
    /\ \E Q \in get_occupied_regions(grid, occupied_cells) :
          /\ Cardinality(SpannedCells(Q)) > 1
          /\ SpannedCells(Q) \cap SpannedCells(mx_hist[2].region) # {}
          /\ SpannedCells(Q) # SpannedCells(mx_hist[2].region)

\* the boxes is_occupied is asked about: cubes of edge 1, 5 and 10 at aligned
\* and unaligned positions
QueryBoxes ==
    { <<x, y, z, x + e, y + e, z + e>> :
        x \in {0, 5, 10, 15}, y \in {0, 5, 10}, z \in {0, 5}, e \in {1, 5, 10} }

\* the intersection of two boxes has positive volume
SharesInterior(q, r) ==
    \A i \in 1..3 :
        (IF q[i] > r[i] THEN q[i] ELSE r[i])
            < (IF q[i + 3] < r[i + 3] THEN q[i + 3] ELSE r[i + 3])

\* C19: is_occupied answers true for every box that shares interior volume
\* with a region that was occupied and has not been cleared
C19_NoFalseNegative ==
    \A q \in QueryBoxes : \A r \in get_occupied_regions(grid, occupied_cells) :
        SharesInterior(q, r) => is_occupied(grid, q)

\* a box that starts in a cell where nothing is registered shares interior
\* volume with a registered region, and is_occupied answers true for it
C19_Witness ==
    \E q \in QueryBoxes : \E r \in get_occupied_regions(grid, occupied_cells) :
        /\ SharesInterior(q, r)
        /\ GridAt(grid, get_grid_cell(q[1], q[2], q[3])) = {}
        /\ is_occupied(grid, q)

\* the region a returned placement was registered with
RegionOfPlacement(p) ==
    <<p.startCoordinates[1], p.startCoordinates[2], p.startCoordinates[3],
      p.endCoordinates[1], p.endCoordinates[2], p.endCoordinates[3]>>

\* C20: no step of a run of find_optimal_placement adds a rearrangement, and
\* after every step each placement made so far is still in the output as it
\* was, its item is still at that position in the placement map and its region
\* is still registered in the index
C20_NoRelocation ==
    [][ (pc = "pass1" \/ pc = "pass2") =>
          /\ rearrangements' = << >>
          /\ \A i \in 1..Len(placements) :
                /\ Len(placements') >= i
                /\ placements'[i] = placements[i]
                /\ \E j \in 1..Len(current_placements') :
                      /\ current_placements'[j].item_id = placements[i].item_id
                      /\ current_placements'[j].pos = placements[i].startCoordinates
                /\ \E r \in get_occupied_regions(grid', occupied_cells') :
                      r = RegionOfPlacement(placements[i]) ]_vars

\* a run has returned after its second loop placed an item at the position
\* of an item the first loop had placed
C20_Witness ==
    /\ pc = "done"
    /\ rearrangements = << >>
    /\ \E i, j \in 1..Len(placements) :
          /\ i < j
          /\ placements[i].startCoordinates = placements[j].startCoordinates
          /\ RegionOfPlacement(placements[i]) # RegionOfPlacement(placements[j])

-----------------------------------------------------------------------------
(* Rotation enumeration: which variants are returned *)

\* the two axes (1 width, 2 depth, 3 height) a rotation tag swaps
SwappedAxes(tag) ==
    IF tag = "ROTATE_X" THEN <<2, 3>>
    ELSE IF tag = "ROTATE_Y" THEN <<1, 3>>
    ELSE <<1, 2>>

\* the container bounds in the order width, depth, height
Bounds(c) == <<c.width_cm, c.depth_cm, c.height_cm>>

\* C21: the first returned variant is the item itself, tagged NO_ROTATION; an
\* axis rotation is among the returned variants exactly when each of the two
\* dimensions it swaps is at most the container bound of the axis it moves
\* to, whatever the third dimension is
C21_RotationIncluded ==
    rotations # << >> =>
        /\ rotations[1] = [item |-> rot_item, rotation |-> "NO_ROTATION"]
        /\ \A k \in 2..Len(rotations) : rotations[k].rotation # "NO_ROTATION"
        /\ \A tag \in {"ROTATE_X", "ROTATE_Y", "ROTATE_Z"} :
              LET i == SwappedAxes(tag)[1]
                  j == SwappedAxes(tag)[2]
              IN  (\E k \in 2..Len(rotations) : rotations[k].rotation = tag)
                  <=> /\ Dims(rot_item)[i] <= Bounds(container)[j]
                      /\ Dims(rot_item)[j] <= Bounds(container)[i]

\* a rotation is returned although the dimension it leaves alone exceeds the
\* container, and another rotation is left out
C21_Witness ==
    /\ Len(rotations) \in 2..3
    /\ \E k \in 2..Len(rotations) :
          /\ rotations[k].rotation = "ROTATE_X"
          /\ rot_item.width_cm > container.width_cm

-----------------------------------------------------------------------------
(* Order of the remove steps *)

\* the start depth of a placed item
StartDepth(id) == CargoOf(cargo_data, id).position.startCoordinates.depth_cm

\* the place of an item in the cargo data
CargoIndex(id) == CHOOSE i \in 1..Len(cargo_data) : cargo_data[i].item_id = id

\* C22: the remove steps of a returned list go by non-decreasing start depth
\* of the removed items, and removed items of equal start depth go in their
\* order in the cargo data
C22_RemoveOrder ==
    search_pc = "returned" =>
        LET rem == IdsOf(retrieval_steps, "remove")
        IN  \A i, j \in 1..Len(rem) :
                i < j =>
                    /\ StartDepth(rem[i]) <= StartDepth(rem[j])
                    /\ StartDepth(rem[i]) = StartDepth(rem[j]) =>
                           CargoIndex(rem[i]) < CargoIndex(rem[j])

\* the item removed first is nearer to the front than the one removed second
\* and comes after it in the cargo data
C22_Witness ==
    /\ search_pc = "returned"
    /\ Len(IdsOf(retrieval_steps, "remove")) = 2
    /\ StartDepth(IdsOf(retrieval_steps, "remove")[1])
         < StartDepth(IdsOf(retrieval_steps, "remove")[2])
    /\ CargoIndex(IdsOf(retrieval_steps, "remove")[1])
         > CargoIndex(IdsOf(retrieval_steps, "remove")[2])

-----------------------------------------------------------------------------
(* occupy of a box of size zero *)

\* the box starts and ends at the same point
ZeroSize(r) == r[1] = r[4] /\ r[2] = r[5] /\ r[3] = r[6]

\* C23: an occupy call with a box of size zero leaves get_occupied_regions()
\* and the answer of is_occupied for every box as they were
C23_ZeroSizeNotRegistered ==
    [][ (/\ mx_ops' = mx_ops + 1
         /\ mx_hist'[Len(mx_hist')].op = "occupy"
         /\ ZeroSize(mx_hist'[Len(mx_hist')].region)) =>
          /\ get_occupied_regions(grid', occupied_cells')
               = get_occupied_regions(grid, occupied_cells)
          /\ \A q \in QueryBoxes \cup MatrixRegions :
                 is_occupied(grid', q) = is_occupied(grid, q) ]_vars

-----------------------------------------------------------------------------
(* Shape of a returned retrieval path *)

\* the two cells differ by one on exactly one axis
UnitStep(a, b) ==
    Cardinality({ i \in 1..3 : a[i] # b[i] }) = 1 /\ manhattan_distance(a, b) = 1

\* C24: a returned path is a chain of unit steps along one axis from the start
\* to the target; every cell stepped onto lies inside the container and is not
\* occupied; total_cost is the number of steps, 0 when start and target are
\* the same cell
C24_PathWellFormed ==
    (astar_pc = "done" /\ path # << >>) =>
        LET steps == path[1].steps
        IN  /\ path[1].total_cost = Len(steps)
            /\ start_pos_int = target_pos_int <=> steps = << >>
            /\ steps # << >> =>
                  /\ steps[1].from = start_pos_int
                  /\ steps[Len(steps)].to = target_pos_int
            /\ \A i \in 1..Len(steps) :
                  /\ UnitStep(steps[i].from, steps[i].to)
                  /\ i > 1 => steps[i].from = steps[i - 1].to
                  /\ steps[i].to[1] \in 0..(container_dims.width - 1)
                  /\ steps[i].to[2] \in 0..(container_dims.depth - 1)
                  /\ steps[i].to[3] \in 0..(container_dims.height - 1)
                  /\ steps[i].to \notin occupied_spaces

\* a returned path that is longer than the distance between start and target,
\* because occupied cells are in the way, and changes level
C24_Witness ==
    /\ astar_pc = "done"
    /\ path # << >>
    /\ Len(path[1].steps) > manhattan_distance(start_pos_int, target_pos_int)
    /\ \E i \in 1..Len(path[1].steps) :
          path[1].steps[i].from[3] # path[1].steps[i].to[3]

-----------------------------------------------------------------------------
(* find_retrieval_path as a function of the priority bonus *)

\* the while loop from st = [open_pq, open_set, closed_set, nodes] to the
\* return: None (<< >>) when the queue is empty, the path when the target is
\* popped
RECURSIVE while_loop(_, _)
while_loop(bonus, st) ==
    IF st.open_pq = << >> THEN << >>
    ELSE LET popped == heappop(st.nodes, st.open_pq)
             current_pos == popped.item
         IN  IF current_pos = target_pos_int
             THEN reconstruct_path(st.nodes, current_pos)
             ELSE LET e == Expand(get_neighbors(container_dims, occupied_spaces,
                                                current_pos),
                                  1, current_pos, st.closed_set \cup {current_pos},
                                  bonus,
                                  [open_pq |-> popped.heap,
                                   open_set |-> st.open_set \ {current_pos},
                                   nodes |-> st.nodes])
                  IN  while_loop(bonus,
                                 [open_pq |-> e.open_pq,
                                  open_set |-> e.open_set,
                                  closed_set |-> st.closed_set \cup {current_pos},
                                  nodes |-> e.nodes])

\* find_retrieval_path for the container, occupied cells, start and target of
\* the state, with the given value of calculate_priority_score(itemId)
find_retrieval_path(bonus) ==
    LET tolerated ==
            /\ 0 <= target_pos_int[1]
            /\ target_pos_int[1] <= container_dims.width + target_tolerance
            /\ 0 <= target_pos_int[2]
            /\ target_pos_int[2] <= container_dims.depth + target_tolerance
            /\ 0 <= target_pos_int[3]
            /\ target_pos_int[3] <= container_dims.height + target_tolerance
        h_cost == manhattan_distance(start_pos_int, target_pos_int)
        n0 == start_pos_int :> [g_cost |-> 0, h_cost |-> h_cost, f_cost |-> h_cost,
                                parent |-> NoParent, priority_bonus |-> bonus]
    IN  IF \/ /\ ~ is_valid_position(container_dims, occupied_spaces, start_pos_int)
              /\ start_pos_int # <<0, 0, 0>>
           \/ /\ ~ is_valid_position(container_dims, occupied_spaces \ {<<0, 0, 0>>},
                                     target_pos_int)
              /\ ~ tolerated
        THEN << >>
        ELSE while_loop(bonus, [open_pq |-> heappush(n0, << >>, start_pos_int),
                                open_set |-> {start_pos_int},
                                closed_set |-> {},
                                nodes |-> n0])

\* the cells and the length of a result; None is << >>
CellsAndLength(result) ==
    IF result = << >> THEN << >>
    ELSE << [cells |-> [k \in 1..Len(result[1].steps) |-> result[1].steps[k].to],
             length |-> result[1].total_cost] >>

\* C25: the result of find_retrieval_path for the start, target and occupied
\* cells of a call is the same, cell by cell, for every value of the priority
\* bonus
C25_BonusIndependent ==
    astar_pc = "done" =>
        \A b \in PriorityBonuses :
            CellsAndLength(find_retrieval_path(b)) = CellsAndLength(path)

\* a search with a bonus other than 0 has returned a path that goes around
\* occupied cells
C25_Witness ==
    /\ astar_pc = "done"
    /\ priority_bonus # 0
    /\ path # << >>
    /\ Len(path[1].steps) > manhattan_distance(start_pos_int, target_pos_int)
    /\ Cardinality(closed_set) > Len(path[1].steps)

-----------------------------------------------------------------------------
(* Targets beyond the container *)

\* the target is not a cell of the container, and is at most the tolerance
\* beyond it on every axis
TargetWithinTolerance ==
    /\ \/ target_pos_int[1] >= container_dims.width
       \/ target_pos_int[2] >= container_dims.depth
       \/ target_pos_int[3] >= container_dims.height
    /\ target_pos_int[1] \in 0..(container_dims.width + target_tolerance)
    /\ target_pos_int[2] \in 0..(container_dims.depth + target_tolerance)
    /\ target_pos_int[3] \in 0..(container_dims.height + target_tolerance)

\* the cell of the container nearest to the target
NearestCell ==
    << IF target_pos_int[1] < container_dims.width
       THEN target_pos_int[1] ELSE container_dims.width - 1,
       IF target_pos_int[2] < container_dims.depth
       THEN target_pos_int[2] ELSE container_dims.depth - 1,
       IF target_pos_int[3] < container_dims.height
       THEN target_pos_int[3] ELSE container_dims.height - 1 >>

\* C26: for a target beyond the container within the tolerance, with a way
\* through free cells from the start to the cell of the container nearest to
\* the target, find_retrieval_path returns a path that ends at the target
C26_ToleratedTargetReached ==
    (/\ astar_pc = "done"
     /\ TargetWithinTolerance
     /\ start_pos_int \in FreeCells
     /\ BFSDistance({start_pos_int}, {start_pos_int}, 0, NearestCell) >= 0) =>
        /\ path # << >>
        /\ path[1].steps[Len(path[1].steps)].to = target_pos_int

-----------------------------------------------------------------------------
(* The output, the index and the placement map at the return *)

\* C27: when find_optimal_placement has returned, the region of every
\* returned placement is in get_occupied_regions() and the placement map
\* holds the placement's start position for its item
C27_OutputAgreesWithIndex ==
    pc = "done" =>
        \A i \in 1..Len(placements) :
            /\ RegionOfPlacement(placements[i])
                 \in get_occupied_regions(grid, occupied_cells)
            /\ \E j \in 1..Len(current_placements) :
                  /\ current_placements[j].item_id = placements[i].item_id
                  /\ current_placements[j].pos = placements[i].startCoordinates

\* a run has returned three placements with three different regions, the last
\* of them made by the second loop in cells that were already occupied
C27_Witness ==
    /\ pc = "done"
    /\ Len(placements) = 3
    /\ Cardinality({ RegionOfPlacement(placements[i]) : i \in 1..3 }) = 3
    /\ Cardinality(get_occupied_regions(grid, occupied_cells)) = 3
    /\ \E i \in 1..2 :
          SpannedCells(RegionOfPlacement(placements[i]))
            \cap SpannedCells(RegionOfPlacement(placements[3])) # {}

-----------------------------------------------------------------------------
(* search_by_id with placed items that the items index does not know *)

\* C29: search_by_id for an id that is in the items index and has a cargo
\* position returns a result and does not raise, whatever other items are
\* stored in the same container
C29_NoRaiseForPresentTarget ==
    (/\ search_pc # "ready"
     /\ target_item_id \in DOMAIN items_data
     /\ target_item_id \in PlacedIds(cargo_data)) =>
        search_pc = "returned"

-----------------------------------------------------------------------------
(* Termination of find_retrieval_path *)

\* the occupied sets of the termination runs: none, the two obstacles around
\* which the heap loses its order, the enclosure of (5,4,0), all candidates
TerminationObstacleSets ==
    { {}, { <<3, 0, 1>>, <<4, 2, 1>> }, { <<4, 4, 0>>, <<5, 3, 0>>, <<5, 4, 1>> },
      ObstacleCandidates }

InitAStarFair == InitAStar /\ occupied_spaces \in TerminationObstacleSets

\* find_retrieval_path is sequential code: once called it keeps executing, so
\* a step of the call that is possible is eventually taken
SpecAStarFair == InitAStarFair /\ [][NextAStar]_vars /\ WF_vars(NextAStar)

\* C30: every call of find_retrieval_path terminates: eventually it has
\* returned, with the open queue empty or with the path to the popped target
C30_Terminates ==
    <>(astar_pc = "done" /\ (open_pq = << >> \/ path # << >>))

\* a call that returned after it had popped a node a second time, which was
\* pushed twice and closed at its first pop
C30_Witness ==
    /\ astar_pc = "done"
    /\ popped_closed
    /\ open_pq = << >> \/ path # << >>

=============================================================================
